---- MODULE Spec2Model ----
(***************************************************************************)
(* Model of the booking intake service (app.py, gunicorn_config.py).       *)
(*                                                                         *)
(* The state is the process environment, the spreadsheet held by the       *)
(* external Sheets collaborator, and, for each gunicorn worker, the        *)
(* position of submit_booking and its local variables.  Every call to the  *)
(* collaborator is one step of a worker; the collaborator may fail any     *)
(* call.  Text is modelled as sequences of one-character strings so that   *)
(* str(), strip() and split() are computed, not assumed.                   *)
(***************************************************************************)
EXTENDS Integers, Sequences, FiniteSets, TLC

(* ------------------------------------------------------------------ *)
(* Bounds of the model                                                 *)
(* ------------------------------------------------------------------ *)
MaxRequests == 2
MaxIdLen == 3
MaxTime == 1

(* gunicorn_config.py: workers = 2 *)
NumWorkers == 2

Workers == 1..NumWorkers

(* ------------------------------------------------------------------ *)
(* Text                                                                *)
(* ------------------------------------------------------------------ *)
None == [t |-> "none"]

IsSpace(c) == c = " "

RECURSIVE LStrip(_)
LStrip(s) ==
    IF s # <<>> /\ IsSpace(Head(s)) THEN LStrip(Tail(s)) ELSE s

RECURSIVE RStrip(_)
RStrip(s) ==
    IF s # <<>> /\ IsSpace(s[Len(s)]) THEN RStrip(SubSeq(s, 1, Len(s) - 1)) ELSE s

(* str.strip() *)
Strip(s) == RStrip(LStrip(s))

(* '#' in s *)
Contains(s, c) == \E i \in 1..Len(s) : s[i] = c

(* s.split('#')[0]: the text before the first '#' (all of s when there is none) *)
RECURSIVE SplitFirst(_, _)
SplitFirst(s, c) ==
    IF s = <<>> \/ Head(s) = c THEN <<>> ELSE <<Head(s)>> \o SplitFirst(Tail(s), c)

(* str(value) for the JSON values a body can carry *)
Str(v) ==
    CASE v.t = "str" -> v.s
      [] v.t = "null" -> <<"N", "o", "n", "e">>
      [] v.t = "int" -> IF v.n = 0 THEN <<"0">> ELSE <<"5">>

(* ------------------------------------------------------------------ *)
(* Submission validation (submit_booking, lines 126-147)               *)
(* ------------------------------------------------------------------ *)
required_fields == <<"name", "phone", "time", "location">>

Fields == {required_fields[i] : i \in 1..Len(required_fields)}

IsDict(d) == d.t = "dict"

(* field not in data or not str(data[field]).strip() *)
FieldMissing(d, f) == f \notin DOMAIN d.m \/ Strip(Str(d.m[f])) = <<>>

(* the list built by the loop over required_fields, in that order *)
MissingFields(d) ==
    SelectSeq(required_fields, LAMBDA f : FieldMissing(d, f))

(* booking_data: every required field coerced to text and trimmed *)
BookingData(d) == [f \in Fields |-> Strip(Str(d.m[f]))]

(* not data: None, the empty object and the number 0 are falsy *)
Falsy(d) ==
    \/ d.t = "none"
    \/ d.t = "dict" /\ DOMAIN d.m = {}
    \/ d.t = "int" /\ d.n = 0

(* ------------------------------------------------------------------ *)
(* Spreadsheet identifier cleaning (lines 158-161, 362)                *)
(* ------------------------------------------------------------------ *)
CleanId(x) ==
    LET s == Strip(x) IN
    IF Contains(s, "#") THEN SplitFirst(s, "#") ELSE s

(* ------------------------------------------------------------------ *)
(* Credential resolution (get_google_sheets_client, lines 44-99)       *)
(* ------------------------------------------------------------------ *)
SecretStates == {"absent", "malformed", "ok"}
EnvJsonStates == {"unset", "blank", "badjson", "badcreds", "ok"}
LocalStates == {"absent", "malformed", "ok"}

(* 1. the secret mount: used when the file exists and authenticates *)
SecretYields(e) == e.secret # "absent" /\ e.secret = "ok"

(* 2. GOOGLE_CREDENTIALS_JSON: skipped when unset or blank; invalid JSON and *)
(*    unusable credentials are caught and logged                             *)
EnvJsonYields(e) == e.envjson \notin {"unset", "blank"} /\ e.envjson = "ok"

(* 3. the local credentials file *)
LocalYields(e) == e.local # "absent" /\ e.local = "ok"

(* as get_google_sheets_client, but a secret mount that is there and does *)
(* not authenticate ends the resolution                                   *)
get_client_strict(e) ==
    IF e.secret # "absent"
    THEN (IF e.secret = "ok" THEN "secret" ELSE "ValueError")
    ELSE IF EnvJsonYields(e) THEN "envjson"
    ELSE IF LocalYields(e) THEN "local"
    ELSE "ValueError"

(* as get_google_sheets_client, but the local file is used whenever it *)
(* exists, and when nothing is found no error is raised                *)
get_client_unchecked(e) ==
    IF SecretYields(e) THEN "secret"
    ELSE IF EnvJsonYields(e) THEN "envjson"
    ELSE "local"

(* the client returned, named by its source, or ValueError *)
get_google_sheets_client(e) ==
    IF SecretYields(e) THEN "secret"
    ELSE IF EnvJsonYields(e) THEN "envjson"
    ELSE IF LocalYields(e) THEN "local"
    ELSE "ValueError"

(* ------------------------------------------------------------------ *)
(* Classification of a failed open_by_key (lines 175-233)              *)
(* ------------------------------------------------------------------ *)
(* The text of an APIError is a sequence of words; a substring test of  *)
(* the code is a test for a word.                                       *)
Upper(w) ==
    CASE w = "permission_denied" -> "PERMISSION_DENIED"
      [] w = "disabled" -> "DISABLED"
      [] w = "not enabled" -> "NOT ENABLED"
      [] OTHER -> w

Lower(w) ==
    CASE w = "PERMISSION_DENIED" -> "permission_denied"
      [] w = "DISABLED" -> "disabled"
      [] w = "NOT ENABLED" -> "not enabled"
      [] OTHER -> w

HasWord(msg, w) == \E i \in 1..Len(msg) : msg[i] = w
HasWordUpper(msg, w) == \E i \in 1..Len(msg) : Upper(msg[i]) = w
HasWordLower(msg, w) == \E i \in 1..Len(msg) : Lower(msg[i]) = w

(* 'PERMISSION_DENIED' in error_msg.upper() or '403' in error_msg *)
LooksPermissionDenied(msg) ==
    HasWordUpper(msg, "PERMISSION_DENIED") \/ HasWord(msg, "403")

(* 'disabled' in error_msg.lower() or 'not enabled' in error_msg.lower() *)
LooksApiDisabled(msg) ==
    HasWordLower(msg, "disabled") \/ HasWordLower(msg, "not enabled")

ClassifyApiError(msg) ==
    IF LooksPermissionDenied(msg) THEN "permission_denied"
    ELSE IF LooksApiDisabled(msg) THEN "api_disabled"
    ELSE "api_error"

(* The texts the collaborator sends with an APIError: a spreadsheet that is *)
(* not shared, the Sheets API switched off for the project (which Google    *)
(* reports with code 403 and status PERMISSION_DENIED as well), the same    *)
(* two without the status code, and a quota failure.                        *)
ApiErrorTexts ==
    { <<"403", "PERMISSION_DENIED">>,
      <<"403", "PERMISSION_DENIED", "disabled">>,
      <<"permission_denied">>,
      <<"DISABLED">>,
      <<"not enabled">>,
      <<"429", "quota">> }

OpenFailures ==
    {[exc |-> "SpreadsheetNotFound", msg |-> <<>>], [exc |-> "Exception", msg |-> <<>>]}
        \cup {[exc |-> "APIError", msg |-> m] : m \in ApiErrorTexts}

NoError == [exc |-> "none", msg |-> <<>>]

(* ------------------------------------------------------------------ *)
(* The spreadsheet                                                     *)
(* ------------------------------------------------------------------ *)
(* the key of the one spreadsheet the service account can reach *)
SheetKey == <<"a">>

expected_headers ==
    << <<"N", "a", "m", "e">>, <<"P", "h", "o", "n", "e">>, <<"T", "i", "m", "e">>,
       <<"L", "o", "c", "a", "t", "i", "o", "n">>,
       <<"T", "i", "m", "e", "s", "t", "a", "m", "p">>, <<"S", "t", "a", "t", "u", "s">> >>

Submitted == <<"S", "u", "b", "m", "i", "t", "t", "e", "d">>

Digit(n) == CASE n = 0 -> "0" [] n = 1 -> "1" [] n = 2 -> "2" [] n = 3 -> "3" [] OTHER -> "9"

(* datetime.now().strftime(...): the text of the clock reading *)
Timestamp(t) == <<"t", Digit(t)>>

(* row_data *)
RowData(b, t) ==
    <<b["name"], b["phone"], b["time"], b["location"], Timestamp(t), Submitted>>

(* as NeedsHeaders, with "and" for "or": an empty row 1 gets no header *)
NeedsHeadersAnd(headers) == headers # <<>> /\ headers[1] # expected_headers[1]

(* not headers or headers[0] != 'Name' *)
NeedsHeaders(headers) == headers = <<>> \/ headers[1] # expected_headers[1]

(* worksheet.row_values(1) *)
RowValues1(rows) == IF Len(rows) >= 1 THEN rows[1] ELSE <<>>

(* worksheet.update('A1:F1', [expected_headers]) *)
UpdateRow1(rows) ==
    IF Len(rows) = 0 THEN <<expected_headers>> ELSE [rows EXCEPT ![1] = expected_headers]

(* worksheet.append_row(row) *)
AppendRow(rows, row) == Append(rows, row)

TitleIndex(wss, title) ==
    IF \E i \in 1..Len(wss) : wss[i].title = title
    THEN CHOOSE i \in 1..Len(wss) : wss[i].title = title
    ELSE 0

(* ------------------------------------------------------------------ *)
(* State                                                               *)
(* ------------------------------------------------------------------ *)
VARIABLES
    env,             \* the process environment and secret mount
    worksheets,      \* the spreadsheet: its worksheets, each a title and rows
    nreq,            \* requests received so far
    pc,              \* per worker: position in submit_booking
    data,            \* per worker: the parsed body
    booking_data,    \* per worker: the cleaned fields
    gc,              \* per worker: the Sheets client, named by its source
    spreadsheet_id,  \* per worker: the cleaned identifier
    ws,              \* per worker: the worksheet in use (index), 0 when none
    err,             \* per worker: the exception caught when opening
    resp,            \* per worker: the response returned
    trace            \* per worker: what this request has done so far

vars == <<env, worksheets, nreq, pc, data, booking_data, gc, spreadsheet_id, ws, err,
          resp, trace>>

NoBooking == [f \in Fields |-> <<>>]

NoResp == [status |-> 0, kind |-> "none", missing |-> <<>>, row_number |-> 0]

Response(status, kind) ==
    [status |-> status, kind |-> kind, missing |-> <<>>, row_number |-> 0]

NoTrace ==
    [phases |-> <<>>, ncred |-> 0, called |-> FALSE, nappend |-> 0, faulted |-> FALSE,
     lastfailed |-> FALSE, before |-> 0, myrow |-> 0]

Phases == <<"ReceivingBody", "Validating", "Authenticating", "Writing", "Responding">>

IdUnset == [t |-> "none", s |-> <<>>]
IdText(s) == [t |-> "str", s |-> s]

(* ------------------------------------------------------------------ *)
(* Inputs                                                              *)
(* ------------------------------------------------------------------ *)
JNull == [t |-> "null"]
JText(s) == [t |-> "str", s |-> s]
JInt(n) == [t |-> "int", n |-> n]
JDict(m) == [t |-> "dict", m |-> m]

FieldValues == {JNull, JText(<<>>), JText(<<" ">>), JText(<<" ", "a", " ">>), JInt(0)}

Keys == Fields \cup {"note"}

(* every JSON object over the required fields and one other key, the body *)
(* that is no JSON, and two numbers                                       *)
AllBodies ==
    {None, JInt(0), JInt(5)}
        \cup {JDict(m) : m \in UNION {[K -> FieldValues] : K \in SUBSET Keys}}

ValidBody == JDict([f \in Fields |-> JText(<<" ", "a", " ">>)])

(* the bodies requests carry when workers run side by side *)
Bodies ==
    { None,
      JDict(<<>>),
      JDict([f \in {"name"} |-> JText(<<" ", " ">>)]),
      ValidBody,
      JInt(5) }

Chars == {" ", "a", "#"}

RECURSIVE Strings(_)
Strings(n) ==
    IF n = 0 THEN {<<>>}
    ELSE LET S == Strings(n - 1) IN
         S \cup {Append(s, c) : s \in {x \in S : Len(x) = n - 1}, c \in Chars}

AllEnvs ==
    [secret : SecretStates, envjson : EnvJsonStates, local : LocalStates,
     sid : {IdUnset} \cup {IdText(s) : s \in Strings(MaxIdLen)}]

(* a deployment whose secret mount is broken and whose environment blob works, *)
(* one with no usable credentials, and one with no spreadsheet identifier      *)
Envs ==
    { [secret |-> "malformed", envjson |-> "ok", local |-> "absent",
       sid |-> IdText(<<"a", "#", "a">>)],
      [secret |-> "absent", envjson |-> "badjson", local |-> "malformed",
       sid |-> IdText(<<"a">>)],
      [secret |-> "ok", envjson |-> "unset", local |-> "absent", sid |-> IdUnset] }

GoodEnv ==
    [secret |-> "ok", envjson |-> "unset", local |-> "absent", sid |-> IdText(<<"a">>)]

(* a spreadsheet as Google creates it, or one whose owner named the sheet *)
InitialWorksheets ==
    { <<[title |-> "Sheet1", rows |-> <<>>]>>,
      <<[title |-> "Bookings", rows |-> <<>>]>> }

IdleLocals ==
    /\ pc = [w \in Workers |-> "idle"]
    /\ data = [w \in Workers |-> None]
    /\ booking_data = [w \in Workers |-> NoBooking]
    /\ gc = [w \in Workers |-> "none"]
    /\ spreadsheet_id = [w \in Workers |-> <<>>]
    /\ ws = [w \in Workers |-> 0]
    /\ err = [w \in Workers |-> NoError]
    /\ resp = [w \in Workers |-> NoResp]
    /\ trace = [w \in Workers |-> NoTrace]

Init ==
    /\ env \in Envs
    /\ worksheets \in InitialWorksheets
    /\ nreq = 0
    /\ IdleLocals

(* ------------------------------------------------------------------ *)
(* submit_booking, one step per collaborator call                      *)
(* ------------------------------------------------------------------ *)
Enter(tr, phase) ==
    IF tr.phases # <<>> /\ tr.phases[Len(tr.phases)] = phase THEN tr
    ELSE [tr EXCEPT !.phases = Append(@, phase)]

(* a call to the Sheets collaborator; failed says whether it raised *)
Called(tr, failed) ==
    [tr EXCEPT !.called = TRUE, !.faulted = @ \/ failed, !.lastfailed = failed]

(* return jsonify(...), status *)
Return(w, r, tr) ==
    /\ resp' = [resp EXCEPT ![w] = r]
    /\ pc' = [pc EXCEPT ![w] = "done"]
    /\ trace' = [trace EXCEPT ![w] = Enter(tr, "Responding")]

Rows(i) == worksheets[i].rows

SetRows(i, rows) == [worksheets EXCEPT ![i].rows = rows]

(* data = request.get_json(force=True, silent=True) *)
ReceiveBody(w, b) ==
    /\ pc[w] = "idle"
    /\ nreq < MaxRequests
    /\ nreq' = nreq + 1
    /\ data' = [data EXCEPT ![w] = b]
    /\ pc' = [pc EXCEPT ![w] = "validate"]
    /\ trace' = [trace EXCEPT ![w] = Enter(NoTrace, "ReceivingBody")]
    /\ UNCHANGED <<env, worksheets, booking_data, gc, spreadsheet_id, ws, err, resp>>

Receive(w) == \E b \in Bodies : ReceiveBody(w, b)

(* what lines 120-147 do with a body: the response they return, or NoResp *)
(* when the body passes.  A body that is no object makes the membership   *)
(* test raise TypeError, which the outermost handler answers.             *)
ValidationResponse(d) ==
    IF Falsy(d) THEN Response(400, "no_json")
    ELSE IF ~IsDict(d) THEN Response(500, "internal_error")
    ELSE IF MissingFields(d) # <<>>
         THEN [Response(400, "missing_fields") EXCEPT !.missing = MissingFields(d)]
    ELSE NoResp

Validate(w) ==
    /\ pc[w] = "validate"
    /\ LET r == ValidationResponse(data[w])
           tr == Enter(trace[w], "Validating")
       IN IF r # NoResp
          THEN /\ Return(w, r, tr)
               /\ UNCHANGED booking_data
          ELSE /\ booking_data' = [booking_data EXCEPT ![w] = BookingData(data[w])]
               /\ pc' = [pc EXCEPT ![w] = "auth"]
               /\ trace' = [trace EXCEPT ![w] = tr]
               /\ UNCHANGED resp
    /\ UNCHANGED <<env, worksheets, nreq, data, gc, spreadsheet_id, ws, err>>

(* gc = get_google_sheets_client(); ValueError is answered at lines 309-315 *)
Authenticate(w) ==
    /\ pc[w] = "auth"
    /\ LET c == get_google_sheets_client(env)
           tr == [Enter(trace[w], "Authenticating") EXCEPT !.ncred = @ + 1]
       IN IF c = "ValueError"
          THEN /\ Return(w, Response(500, "config_error"), tr)
               /\ UNCHANGED gc
          ELSE /\ gc' = [gc EXCEPT ![w] = c]
               /\ pc' = [pc EXCEPT ![w] = "open"]
               /\ trace' = [trace EXCEPT ![w] = tr]
               /\ UNCHANGED resp
    /\ UNCHANGED <<env, worksheets, nreq, data, booking_data, spreadsheet_id, ws, err>>

(* not spreadsheet_id *)
IdNotConfigured(sid) == sid.t = "none" \/ sid.s = <<>>

(* the response to a failed open_by_key *)
OpenFailureResponse(f) ==
    CASE f.exc = "SpreadsheetNotFound" -> Response(404, "not_found")
      [] f.exc = "APIError" ->
            LET k == ClassifyApiError(f.msg) IN
            Response(IF k = "api_error" THEN 500 ELSE 403, k)
      [] OTHER -> Response(500, "access_failed")

(* lines 152-233: read and clean the identifier, open the spreadsheet *)
Open(w) ==
    /\ pc[w] = "open"
    /\ LET tr == Enter(trace[w], "Writing") IN
       IF IdNotConfigured(env.sid)
       THEN /\ Return(w, Response(500, "no_spreadsheet_id"), tr)
            /\ UNCHANGED <<spreadsheet_id, err>>
       ELSE LET id == CleanId(env.sid.s) IN
            /\ spreadsheet_id' = [spreadsheet_id EXCEPT ![w] = id]
            /\ \/ /\ id = SheetKey
                  /\ pc' = [pc EXCEPT ![w] = "worksheet"]
                  /\ trace' = [trace EXCEPT ![w] = Called(tr, FALSE)]
                  /\ UNCHANGED <<resp, err>>
               \/ \E f \in OpenFailures :
                     /\ id = SheetKey => f.exc # "SpreadsheetNotFound"
                     /\ err' = [err EXCEPT ![w] = f]
                     /\ Return(w, OpenFailureResponse(f), Called(tr, TRUE))
    /\ UNCHANGED <<env, worksheets, nreq, data, booking_data, gc, ws>>

(* worksheet = spreadsheet.worksheet('Bookings') *)
Lookup(w) ==
    /\ pc[w] = "worksheet"
    /\ LET i == TitleIndex(worksheets, "Bookings") IN
       \/ /\ i > 0
          /\ ws' = [ws EXCEPT ![w] = i]
          /\ pc' = [pc EXCEPT ![w] = "headers"]
          /\ trace' = [trace EXCEPT ![w] = [Called(@, FALSE) EXCEPT !.before = Len(Rows(i))]]
          /\ UNCHANGED resp
       \/ /\ i = 0
          /\ pc' = [pc EXCEPT ![w] = "sheet1"]
          /\ trace' = [trace EXCEPT ![w] = Called(@, FALSE)]
          /\ UNCHANGED <<ws, resp>>
       \/ /\ Return(w, Response(500, "internal_error"), Called(trace[w], TRUE))
          /\ UNCHANGED ws
    /\ UNCHANGED <<env, worksheets, nreq, data, booking_data, gc, spreadsheet_id, err>>

(* worksheet = spreadsheet.sheet1 *)
Sheet1(w) ==
    /\ pc[w] = "sheet1"
    /\ \/ /\ ws' = [ws EXCEPT ![w] = 1]
          /\ pc' = [pc EXCEPT ![w] = "headers"]
          /\ trace' = [trace EXCEPT ![w] = [Called(@, FALSE) EXCEPT !.before = Len(Rows(1))]]
       \/ /\ pc' = [pc EXCEPT ![w] = "add_worksheet"]
          /\ trace' = [trace EXCEPT ![w] = Called(@, TRUE)]
          /\ UNCHANGED ws
    /\ UNCHANGED <<env, worksheets, nreq, data, booking_data, gc, spreadsheet_id, err, resp>>

(* worksheet = spreadsheet.add_worksheet(title='Bookings', ...) *)
AddWorksheet(w) ==
    /\ pc[w] = "add_worksheet"
    /\ \/ /\ TitleIndex(worksheets, "Bookings") = 0
          /\ worksheets' = Append(worksheets, [title |-> "Bookings", rows |-> <<>>])
          /\ ws' = [ws EXCEPT ![w] = Len(worksheets) + 1]
          /\ pc' = [pc EXCEPT ![w] = "headers"]
          /\ trace' = [trace EXCEPT ![w] = [Called(@, FALSE) EXCEPT !.before = 0]]
          /\ UNCHANGED resp
       \/ /\ Return(w, Response(500, "internal_error"), Called(trace[w], TRUE))
          /\ UNCHANGED <<worksheets, ws>>
    /\ UNCHANGED <<env, nreq, data, booking_data, gc, spreadsheet_id, err>>

(* headers = worksheet.row_values(1), and the test on it *)
ReadHeaders(w) ==
    /\ pc[w] = "headers"
    /\ \/ /\ pc' = [pc EXCEPT ![w] =
                      IF NeedsHeaders(RowValues1(Rows(ws[w]))) THEN "update" ELSE "append"]
          /\ trace' = [trace EXCEPT ![w] = Called(@, FALSE)]
       \/ /\ pc' = [pc EXCEPT ![w] = "fallback"]
          /\ trace' = [trace EXCEPT ![w] = Called(@, TRUE)]
    /\ UNCHANGED <<env, worksheets, nreq, data, booking_data, gc, spreadsheet_id, ws, err,
                   resp>>

(* worksheet.update('A1:F1', [expected_headers], ...) *)
UpdateHeaders(w) ==
    /\ pc[w] = "update"
    /\ \/ /\ worksheets' = SetRows(ws[w], UpdateRow1(Rows(ws[w])))
          /\ pc' = [pc EXCEPT ![w] = "append"]
          /\ trace' = [trace EXCEPT ![w] = Called(@, FALSE)]
       \/ /\ pc' = [pc EXCEPT ![w] = "fallback"]
          /\ trace' = [trace EXCEPT ![w] = Called(@, TRUE)]
          /\ UNCHANGED worksheets
    /\ UNCHANGED <<env, nreq, data, booking_data, gc, spreadsheet_id, ws, err, resp>>

(* except Exception: try: worksheet.append_row([...headers...]) except: pass *)
FallbackHeaders(w) ==
    /\ pc[w] = "fallback"
    /\ \/ /\ worksheets' = SetRows(ws[w], AppendRow(Rows(ws[w]), expected_headers))
          /\ trace' = [trace EXCEPT ![w] = Called(@, FALSE)]
       \/ /\ trace' = [trace EXCEPT ![w] = Called(@, TRUE)]
          /\ UNCHANGED worksheets
    /\ pc' = [pc EXCEPT ![w] = "append"]
    /\ UNCHANGED <<env, nreq, data, booking_data, gc, spreadsheet_id, ws, err, resp>>

(* timestamp = datetime.now()...; worksheet.append_row(row_data, ...) *)
AppendData(w) ==
    /\ pc[w] = "append"
    /\ \/ \E t \in 1..MaxTime :
             /\ worksheets' =
                    SetRows(ws[w], AppendRow(Rows(ws[w]), RowData(booking_data[w], t)))
             /\ pc' = [pc EXCEPT ![w] = "count"]
             /\ trace' = [trace EXCEPT ![w] =
                             [Called(@, FALSE) EXCEPT !.nappend = @ + 1,
                                                      !.myrow = Len(Rows(ws[w])) + 1]]
             /\ UNCHANGED resp
       \/ /\ Return(w, Response(500, "save_failed"), Called(trace[w], TRUE))
          /\ UNCHANGED worksheets
    /\ UNCHANGED <<env, nreq, data, booking_data, gc, spreadsheet_id, ws, err>>

(* all_values = worksheet.get_all_values(); row_number = len(all_values) *)
CountRows(w) ==
    /\ pc[w] = "count"
    /\ \/ Return(w, [Response(200, "ok") EXCEPT !.row_number = Len(Rows(ws[w]))],
                 Called(trace[w], FALSE))
       \/ Return(w, Response(500, "save_failed"), Called(trace[w], TRUE))
    /\ UNCHANGED <<env, worksheets, nreq, data, booking_data, gc, spreadsheet_id, ws, err>>

(* the handler has returned; its locals are gone and the worker is free *)
Finish(w) ==
    /\ pc[w] = "done"
    /\ pc' = [pc EXCEPT ![w] = "idle"]
    /\ data' = [data EXCEPT ![w] = None]
    /\ booking_data' = [booking_data EXCEPT ![w] = NoBooking]
    /\ gc' = [gc EXCEPT ![w] = "none"]
    /\ spreadsheet_id' = [spreadsheet_id EXCEPT ![w] = <<>>]
    /\ ws' = [ws EXCEPT ![w] = 0]
    /\ err' = [err EXCEPT ![w] = NoError]
    /\ resp' = [resp EXCEPT ![w] = NoResp]
    /\ trace' = [trace EXCEPT ![w] = NoTrace]
    /\ UNCHANGED <<env, worksheets, nreq>>

(* every step of the handler after the body has been read *)
Handle(w) ==
    \/ Validate(w)
    \/ Authenticate(w)
    \/ Open(w)
    \/ Lookup(w)
    \/ Sheet1(w)
    \/ AddWorksheet(w)
    \/ ReadHeaders(w)
    \/ UpdateHeaders(w)
    \/ FallbackHeaders(w)
    \/ AppendData(w)
    \/ CountRows(w)
    \/ Finish(w)

(* the two sync workers serve requests side by side *)
Next == \E w \in Workers : Receive(w) \/ Handle(w)

Spec == Init /\ [][Next]_vars

(* one request in flight at a time *)
NextSeq ==
    \E w \in Workers : (Receive(w) /\ \A v \in Workers : pc[v] = "idle") \/ Handle(w)

SpecSeq == Init /\ [][NextSeq]_vars

(* worker 1 has just read body b in environment e *)
Received(e, b) ==
    /\ env = e
    /\ worksheets \in InitialWorksheets
    /\ nreq = 1
    /\ pc = [w \in Workers |-> IF w = 1 THEN "validate" ELSE "idle"]
    /\ data = [w \in Workers |-> IF w = 1 THEN b ELSE None]
    /\ booking_data = [w \in Workers |-> NoBooking]
    /\ gc = [w \in Workers |-> "none"]
    /\ spreadsheet_id = [w \in Workers |-> <<>>]
    /\ ws = [w \in Workers |-> 0]
    /\ err = [w \in Workers |-> NoError]
    /\ resp = [w \in Workers |-> NoResp]
    /\ trace = [w \in Workers |->
                  IF w = 1 THEN Enter(NoTrace, "ReceivingBody") ELSE NoTrace]

NextHandle == \E w \in Workers : Handle(w)

(* one request with any body, in a working deployment *)
InitBody == \E b \in AllBodies : Received(GoodEnv, b)

SpecBody == InitBody /\ [][NextHandle]_vars

(* one well-formed request, in any deployment *)
InitEnv == \E e \in AllEnvs : Received(e, ValidBody)

SpecEnv == InitEnv /\ [][NextHandle]_vars

(* ------------------------------------------------------------------ *)
(* Properties                                                          *)
(* ------------------------------------------------------------------ *)
Range(q) == {q[i] : i \in 1..Len(q)}

Done(w) == pc[w] = "done"

(* f is absent from object d, or its text is empty once trimmed *)
AbsentOrBlank(d, f) ==
    f \notin DOMAIN d.m \/ (d.m[f].t = "str" /\ Strip(d.m[f].s) = <<>>)

(* f is absent from object d, null, or empty once coerced to text and trimmed *)
AbsentNullOrEmpty(d, f) ==
    \/ f \notin DOMAIN d.m
    \/ d.m[f].t = "null"
    \/ Strip(Str(d.m[f])) = <<>>

IsHeaderRow(row) == row = expected_headers

DataRows(rows) == {i \in 1..Len(rows) : ~IsHeaderRow(rows[i])}

HeaderRows(rows) == {i \in 1..Len(rows) : IsHeaderRow(rows[i])}

(* C1: every request whose JSON object lacks a required field (absent, or    *)
(* blank after trimming), the empty object included, is answered 400 with a  *)
(* response that names every such field.                                     *)
C1_MissingFieldsAllNamed ==
    \A w \in Workers :
        (/\ Done(w)
         /\ IsDict(data[w])
         /\ \E f \in Fields : AbsentOrBlank(data[w], f))
        => /\ resp[w].status = 400
           /\ \A f \in Fields : AbsentOrBlank(data[w], f) => f \in Range(resp[w].missing)

(* C5: a required field that is absent, null, or empty after coercion and    *)
(* trimming makes the request end with 400, the field named, and no row      *)
(* appended.  Stated for objects that carry at least one key, so that the    *)
(* empty object of C1 is not what refutes it.                                *)
C5_AbsentNullEmptyRejected ==
    \A w \in Workers :
        (/\ IsDict(data[w])
         /\ DOMAIN data[w].m # {}
         /\ pc[w] \notin {"idle", "validate"})
        => \A f \in Fields :
              AbsentNullOrEmpty(data[w], f)
              => /\ trace[w].nappend = 0
                 /\ Done(w)
                 /\ resp[w].status = 400
                 /\ f \in Range(resp[w].missing)

(* every required field of object d is there and non-empty once trimmed *)
AllFieldsGiven(d) ==
    /\ IsDict(d)
    /\ \A f \in Fields : f \in DOMAIN d.m /\ Strip(Str(d.m[f])) # <<>>

(* the environment names the spreadsheet the service account can reach *)
SpreadsheetOpens == ~IdNotConfigured(env.sid) /\ CleanId(env.sid.s) = SheetKey

(* worker w has finished a well-formed request for which the credentials  *)
(* resolved, the spreadsheet opened and no call to the collaborator failed *)
CleanRun(w) ==
    /\ Done(w)
    /\ AllFieldsGiven(data[w])
    /\ get_google_sheets_client(env) # "ValueError"
    /\ SpreadsheetOpens
    /\ ~trace[w].faulted

(* C2 as stated: such a request is answered 200 and leaves the worksheet  *)
(* with exactly one row more than it had, whatever it held before.        *)
C2_RowCountPlusOne ==
    \A w \in Workers :
        CleanRun(w)
        => /\ resp[w].status = 200
           /\ resp[w].kind = "ok"
           /\ Len(Rows(ws[w])) = trace[w].before + 1

(* C2, amended: with one request in flight, such a request is answered 200 *)
(* and leaves the worksheet with one row more than it had when it held any *)
(* row, and with two more (the header row and the data row) when it was    *)
(* empty.                                                                  *)
C2_RowCountHeaderAware ==
    \A w \in Workers :
        CleanRun(w)
        => /\ resp[w].status = 200
           /\ resp[w].kind = "ok"
           /\ Len(Rows(ws[w])) =
                 trace[w].before + (IF trace[w].before = 0 THEN 2 ELSE 1)

(* a clean request has ended on a worksheet that was empty, now header + row *)
C2_WitnessFresh ==
    \E w \in Workers :
        /\ CleanRun(w)
        /\ resp[w].status = 200
        /\ trace[w].before = 0
        /\ Len(Rows(ws[w])) = 2

(* C3: a worksheet that started empty and has taken two or more bookings  *)
(* holds exactly one header row, and that row is row 1.                   *)
C3_ExactlyOneHeaderRow ==
    \A i \in 1..Len(worksheets) :
        Cardinality(DataRows(Rows(i))) >= 2 => HeaderRows(Rows(i)) = {1}

(* C4: the identifier the handler opens is a fixed point of the cleaning, *)
(* and an identifier with a '#...' suffix cleans to what the identifier   *)
(* before the '#' cleans to.                                              *)
C4_CleaningIdempotent ==
    \A w \in Workers :
        ("Writing" \in Range(trace[w].phases) /\ ~IdNotConfigured(env.sid))
        => /\ CleanId(spreadsheet_id[w]) = spreadsheet_id[w]
           /\ Contains(env.sid.s, "#")
                 => spreadsheet_id[w] = CleanId(SplitFirst(env.sid.s, "#"))

(* the sources in the order of the documented resolution *)
SourceOrder == <<"secret", "envjson", "local">>

SourceState(e, src) ==
    CASE src = "secret" -> e.secret
      [] src = "envjson" -> e.envjson
      [] src = "local" -> e.local

(* the sources of e that authenticate, as positions in SourceOrder *)
WorkingSources(e) == {i \in 1..Len(SourceOrder) : SourceState(e, SourceOrder[i]) = "ok"}

(* C6: once a request has resolved credentials, its client is that of the  *)
(* first source in the order secret mount, environment blob, local file    *)
(* that authenticates, absent and malformed sources being passed over;     *)
(* when no source authenticates the request has ended with the 500         *)
(* configuration error and holds no client.                                *)
C6_FirstWorkingSourceWins ==
    \A w \in Workers :
        trace[w].ncred > 0
        => IF WorkingSources(env) # {}
           THEN /\ gc[w] = SourceOrder[CHOOSE i \in WorkingSources(env) :
                                          \A j \in WorkingSources(env) : i <= j]
                /\ resp[w].kind # "config_error"
           ELSE /\ gc[w] = "none"
                /\ Done(w)
                /\ resp[w].status = 500
                /\ resp[w].kind = "config_error"

(* a broken secret mount was passed over for the environment blob *)
C6_WitnessFallThrough ==
    \E w \in Workers :
        /\ env.secret = "malformed"
        /\ env.envjson = "ok"
        /\ gc[w] = "envjson"
        /\ trace[w].ncred = 1

(* the collaborator reports the Sheets API as switched off *)
SignalsApiDisabled(f) ==
    /\ f.exc = "APIError"
    /\ \E i \in 1..Len(f.msg) : Lower(f.msg[i]) \in {"disabled", "not enabled"}

(* the collaborator reports a spreadsheet that is not shared *)
SignalsPermissionDenied(f) ==
    /\ f.exc = "APIError"
    /\ ~SignalsApiDisabled(f)
    /\ \E i \in 1..Len(f.msg) : Upper(f.msg[i]) \in {"PERMISSION_DENIED", "403"}

(* C7: a failed open is answered by its signal: not found 404, permission  *)
(* denied 403 with the sharing remedy, API disabled 403 with the enabling  *)
(* remedy, anything else 500.                                              *)
C7_OpenFailureClassified ==
    \A w \in Workers :
        (Done(w) /\ err[w].exc # "none")
        => CASE err[w].exc = "SpreadsheetNotFound" -> resp[w].status = 404
             [] SignalsApiDisabled(err[w]) ->
                   resp[w].status = 403 /\ resp[w].kind = "api_disabled"
             [] SignalsPermissionDenied(err[w]) ->
                   resp[w].status = 403 /\ resp[w].kind = "permission_denied"
             [] OTHER -> resp[w].status = 500

(* C8: a worksheet that holds a data row has the header in row 1. *)
C8_HeaderBeforeData ==
    \A i \in 1..Len(worksheets) :
        DataRows(Rows(i)) # {} => IsHeaderRow(Rows(i)[1])

(* C9: no step changes a row that a worksheet already holds. *)
C9_RowsImmutable ==
    [][\A i \in 1..Len(worksheets) :
          \A r \in 1..Len(worksheets[i].rows) :
              /\ Len(worksheets'[i].rows) >= r
              /\ worksheets'[i].rows[r] = worksheets[i].rows[r]]_vars

PhaseIndex(ph) == CHOOSE i \in 1..Len(Phases) : Phases[i] = ph

(* C10: a request enters the phases in their order and each at most once,  *)
(* has a response exactly when it has ended, resolves no credentials and   *)
(* calls no spreadsheet when its body lacks a required field, calls no     *)
(* spreadsheet when no credential source authenticates, and appends at     *)
(* most one data row.                                                      *)
C10_PhasesInOrder ==
    \A w \in Workers :
        LET tr == trace[w] IN
        /\ \A i, j \in 1..Len(tr.phases) :
              i < j => PhaseIndex(tr.phases[i]) < PhaseIndex(tr.phases[j])
        /\ Done(w) <=> "Responding" \in Range(tr.phases)
        /\ Done(w) <=> resp[w] # NoResp
        /\ (IsDict(data[w]) /\ \E f \in Fields : AbsentOrBlank(data[w], f))
              => tr.ncred = 0 /\ ~tr.called
        /\ WorkingSources(env) = {} => ~tr.called
        /\ tr.nappend <= 1

(* a well-formed request has gone through all five phases and appended *)
C10_WitnessAllPhases ==
    \E w \in Workers :
        /\ trace[w].phases = Phases
        /\ trace[w].nappend = 1
        /\ resp[w].status = 200

(* C11: when a spreadsheet call made after the spreadsheet was opened has  *)
(* failed, the request has ended with a 500 response, so that no further  *)
(* spreadsheet call follows the failed one.  The step from a failed       *)
(* sheet1 to add_worksheet, which the documented worksheet lookup allows, *)
(* is left aside.                                                         *)
C11_FailureIsTerminal ==
    \A w \in Workers :
        (/\ trace[w].lastfailed
         /\ err[w].exc = "none"
         /\ pc[w] # "add_worksheet")
        => Done(w) /\ resp[w].status = 500

(* C12: the row_number of a 200 response is the position of the row that *)
(* this request appended, also when the workers' calls interleave.       *)
C12_RowNumberIsOwnRow ==
    \A w \in Workers :
        (Done(w) /\ resp[w].status = 200)
        => resp[w].row_number = trace[w].myrow

(* C13: a request that has ended answered 200 exactly when it appended its *)
(* data row; after an error status no row of the request is stored.        *)
C13_ResponseAgreesWithStore ==
    \A w \in Workers :
        Done(w) => (resp[w].status = 200 <=> trace[w].nappend = 1)

====
